---- MODULE Spec2Model ----
(***************************************************************************)
(* Model of reviewer.py (class AIReviewer): the hunk splitter, the review  *)
(* client, the per-file review decision and the report assembly.           *)
(*                                                                         *)
(* Texts (diffs, model replies, exception messages) are sequences of       *)
(* one-character strings, so that strip(), the "LGTM" substring test and    *)
(* the hunk-header regular expression are computed character by character. *)
(***************************************************************************)
EXTENDS Integers, Sequences, FiniteSets, TLC

VARIABLES
    pc,             \* position of the process in generate_report
    CHUNK_LIMIT,    \* module global read from the environment (line 15)
    files,          \* get_changed_files' result, the list the loop walks
    pos,            \* 1-based index of the for loop over files (line 122)
    raw_diff,       \* diff of the file under review (line 125)
    hunks,          \* split_into_hunks' result (line 129)
    file_comments,  \* labelled comments of the file under review (line 130)
    report_lines,   \* self.report_lines
    fetched,        \* history: one record per get_file_diff that returned
    calls,          \* history: one record per ask_llm invocation
    reviewed,       \* history: one record per file that reached line 143
    written,        \* number of times PR_REVIEW.md has been written
    artifact,       \* content of PR_REVIEW.md
    notice,         \* last console notice that decides the run's outcome
    exit_code,      \* exit status of the process, -1 while it runs
    vc_failed       \* a git command has raised CalledProcessError

vars == <<pc, CHUNK_LIMIT, files, pos, raw_diff, hunks, file_comments,
          report_lines, fetched, calls, reviewed, written, artifact, notice,
          exit_code, vc_failed>>

----------------------------------------------------------------------------
(* Bounds of the model *)

\* longest raw changed-file listing git returns
MaxFiles == 2
\* CHUNK_LIMIT ranges over -1..MaxChunkLimit, and over LargeLimit
MaxChunkLimit == 2
\* a CHUNK_LIMIT at least as large as every diff of the model
LargeLimit == 40
\* longest input of the splitter's own specification, in pieces
MaxPieces == 7

----------------------------------------------------------------------------
(* Text primitives *)

\* the characters str.strip() and the regex class \s treat as whitespace
Whitespace == {" ", "\n", "\t", "\r"}

IsSpace(c) == c \in Whitespace

SetMin(S) == CHOOSE x \in S : \A y \in S : x <= y

SetMax(S) == CHOOSE x \in S : \A y \in S : x >= y

\* str.strip(): drop leading and trailing whitespace
Strip(s) ==
    LET keep == {i \in 1..Len(s) : ~IsSpace(s[i])}
    IN  IF keep = {} THEN <<>> ELSE SubSeq(s, SetMin(keep), SetMax(keep))

\* pat in text, scanning the start positions left to right
RECURSIVE FindFrom(_, _, _)
FindFrom(text, pat, i) ==
    IF i + Len(pat) - 1 > Len(text) THEN FALSE
    ELSE IF SubSeq(text, i, i + Len(pat) - 1) = pat THEN TRUE
    ELSE FindFrom(text, pat, i + 1)

LGTM == <<"L", "G", "T", "M">>

HasLGTM_exact(text) == text = LGTM

\* the test `"LGTM" in text` of lines 135 and 143
HasLGTM(text) == FindFrom(text, LGTM, 1)

----------------------------------------------------------------------------
(* split_into_hunks: re.split(r'(^@@\s.*?\s@@)', diff_content, re.MULTILINE) *)

\* ^ under re.MULTILINE: start of the text or right after a newline
AtLineStart(s, p) == p = 1 \/ s[p - 1] = "\n"

\* positions q of the closing \s of a match that starts at p: "@@" follows q
\* and .*? covers p+3..q-1, which holds no newline
ClosingAt(s, p) ==
    {q \in (p + 3)..(Len(s) - 2) :
        /\ IsSpace(s[q])
        /\ s[q + 1] = "@"
        /\ s[q + 2] = "@"
        /\ \A j \in (p + 3)..(q - 1) : s[j] # "\n"}

\* index of the last character of the match of ^@@\s.*?\s@@ at p, 0 if none;
\* .*? is lazy, so the match ends at the first closing that fits
HeaderEnd(s, p) ==
    IF /\ p + 2 <= Len(s)
       /\ AtLineStart(s, p)
       /\ s[p] = "@"
       /\ s[p + 1] = "@"
       /\ IsSpace(s[p + 2])
       /\ ClosingAt(s, p) # {}
    THEN SetMin(ClosingAt(s, p)) + 2
    ELSE 0

\* start of the leftmost match at or after from, 0 if none
NextHeader(s, from) ==
    LET starts == {p \in from..Len(s) : HeaderEnd(s, p) # 0}
    IN  IF starts = {} THEN 0 ELSE SetMin(starts)

\* re.split with one capturing group: text, header, text, header, ..., text
RECURSIVE re_split(_, _)
re_split(s, from) ==
    LET p == NextHeader(s, from)
    IN  IF p = 0 THEN <<SubSeq(s, from, Len(s))>>
        ELSE <<SubSeq(s, from, p - 1), SubSeq(s, p, HeaderEnd(s, p))>>
             \o re_split(s, HeaderEnd(s, p) + 1)

\* lines 57-60: one unit per (header, code) pair, each behind the file header
assemble(parts) ==
    [k \in 1..((Len(parts) - 1) \div 2) |->
        parts[1] \o <<"\n">> \o parts[2 * k] \o parts[2 * k + 1]]

split_into_hunks(diff_content) ==
    LET parts == re_split(diff_content, 1)
    IN  IF Len(parts) > 1 THEN assemble(parts) ELSE <<diff_content>>

----------------------------------------------------------------------------
(* Inputs of the model: what git and the inference endpoint may return *)

\* suffixes get_changed_files filters out (line 38)
ExcludedSuffixes == {".lock", ".png", ".jpg", ".svg"}

\* a path is its stem and its suffix; the empty line is what
\* "".split('\n') yields when git lists nothing
FileNames ==
    {[stem |-> "a", suffix |-> ".py"],
     [stem |-> "b", suffix |-> ".py"],
     [stem |-> "d", suffix |-> ".js"],
     [stem |-> "c", suffix |-> ".lock"]}

EmptyLine == [stem |-> "", suffix |-> ""]

\* git diff --name-only lists every changed path once
Listings ==
    {<<EmptyLine>>} \cup
    UNION {{l \in [1..n -> FileNames] : \A i, j \in 1..n : l[i] = l[j] => i = j}
           : n \in 1..MaxFiles}

DiffOne == <<"x", "\n">>

DiffTwo == <<"x", "y", "\n">>

DiffNoMarker == <<"h", "\n", "x", "y", "z", "\n">>

DiffTwoHunks ==
    <<"h", "\n", "@", "@", " ", "1", " ", "@", "@", "\n", "+", "a", "\n",
      "@", "@", " ", "2", " ", "@", "@", "\n", "-", "b", "\n">>

\* outputs of `git diff merge_base source -- file`, before run_command strips
DiffOutputs == {<<>>, DiffOne, DiffTwo, DiffNoMarker, DiffTwoHunks}

ReplyLgtm == <<"L", "G", "T", "M", "\n">>

ReplyLooksFine ==
    <<"L", "o", "o", "k", "s", " ", "f", "i", "n", "e", ".", " ",
      "L", "G", "T", "M">>

ReplyAdjacent ==
    <<"L", "G", "T", "M", "-", "a", "d", "j", "a", "c", "e", "n", "t", " ",
      "b", "u", "t", " ", "b", "r", "o", "k", "e", "n">>

ReplyNullCheck ==
    <<"-", " ", "m", "i", "s", "s", "i", "n", "g", " ", "n", "u", "l", "l",
      " ", "c", "h", "e", "c", "k">>

ErrRefused ==
    <<"C", "o", "n", "n", "e", "c", "t", "i", "o", "n", " ",
      "r", "e", "f", "u", "s", "e", "d">>

ErrUrl ==
    <<"4", "0", "4", " ", "f", "o", "r", " ", "u", "r", "l", ":", " ",
      "h", "t", "t", "p", ":", "/", "/", "h", "/", "L", "G", "T", "M">>

\* what requests.post / raise_for_status / resp.json() may do (lines 92-99):
\* a body with a non-empty choices list, a body without one, or an exception
Outcomes ==
    {[kind |-> "choices", text |-> t] :
        t \in {ReplyLooksFine, ReplyAdjacent, ReplyNullCheck, <<>>}}
    \cup {[kind |-> "response", text |-> t] : t \in {ReplyLgtm}}
    \cup {[kind |-> "error", text |-> t] : t \in {ErrRefused, ErrUrl}}

----------------------------------------------------------------------------
(* ask_llm *)

\* line 68
context_note(is_partial) ==
    IF is_partial THEN "(Partial Hunk Review)" ELSE "(Full File Review)"

ErrorPrefix == <<"L", "L", "M", " ", "E", "r", "r", "o", "r", ":", " ">>

\* lines 91-101: the text ask_llm returns for an outcome of the exchange
ask_llm(outcome) ==
    IF outcome.kind = "error" THEN ErrorPrefix \o outcome.text
    ELSE Strip(outcome.text)

\* the request ask_llm sends and the text it returned
CallRecord(file_name, content, is_partial, outcome) ==
    [file_name |-> file_name, content |-> content,
     note |-> context_note(is_partial), outcome |-> outcome,
     text |-> ask_llm(outcome)]

----------------------------------------------------------------------------
(* generate_report *)

Init ==
    /\ pc = "merge_base"
    /\ CHUNK_LIMIT \in ((-1)..MaxChunkLimit) \cup {LargeLimit}
    /\ files = <<>>
    /\ pos = 0
    /\ raw_diff = <<>>
    /\ hunks = <<>>
    /\ file_comments = <<>>
    /\ report_lines = <<>>
    /\ fetched = <<>>
    /\ calls = <<>>
    /\ reviewed = <<>>
    /\ written = 0
    /\ artifact = <<>>
    /\ notice = "none"
    /\ exit_code = -1
    /\ vc_failed = FALSE

run_command_error_falls_through ==
    /\ pc' = "save"
    /\ notice' = "git_error"
    /\ vc_failed' = TRUE
    /\ UNCHANGED <<CHUNK_LIMIT, files, pos, raw_diff, hunks, file_comments,
                   report_lines, fetched, calls, reviewed, written, artifact,
                   exit_code>>

\* lines 31-33: CalledProcessError is printed and the process exits with 1
run_command_error ==
    /\ pc' = "exited"
    /\ exit_code' = 1
    /\ notice' = "git_error"
    /\ vc_failed' = TRUE
    /\ UNCHANGED <<CHUNK_LIMIT, files, pos, raw_diff, hunks, file_comments,
                   report_lines, fetched, calls, reviewed, written, artifact>>

\* line 107, git merge-base succeeds
FindMergeBase ==
    /\ pc = "merge_base"
    /\ pc' = "changed_files"
    /\ UNCHANGED <<CHUNK_LIMIT, files, pos, raw_diff, hunks, file_comments,
                   report_lines, fetched, calls, reviewed, written, artifact,
                   notice, exit_code, vc_failed>>

\* line 107, git merge-base fails
FindMergeBaseFails ==
    /\ pc = "merge_base"
    /\ run_command_error

Reviewable(f) == f # EmptyLine /\ f.suffix \notin ExcludedSuffixes

\* lines 35-38 and 108-112: the filtered listing, and the early return
GetChangedFiles ==
    /\ pc = "changed_files"
    /\ \E lines \in Listings :
        LET kept == SelectSeq(lines, Reviewable)
        IN  /\ files' = kept
            /\ IF kept = <<>>
               THEN /\ pc' = "done"
                    /\ notice' = "no_changes"
                    /\ exit_code' = 0
                    /\ pos' = pos
               ELSE /\ pc' = "file_diff"
                    /\ pos' = 1
                    /\ UNCHANGED <<notice, exit_code>>
    /\ UNCHANGED <<CHUNK_LIMIT, raw_diff, hunks, file_comments, report_lines,
                   fetched, calls, reviewed, written, artifact, vc_failed>>

GetChangedFilesFails ==
    /\ pc = "changed_files"
    /\ run_command_error

\* lines 125-130: fetch the diff and choose whole-file or hunk review
GetFileDiff ==
    /\ pc = "file_diff"
    /\ \E out \in DiffOutputs :
        LET diff == Strip(out)
        IN  /\ raw_diff' = diff
            /\ IF Len(diff) > CHUNK_LIMIT
               THEN /\ hunks' = split_into_hunks(diff)
                    /\ file_comments' = <<>>
                    /\ pc' = "hunk"
               ELSE /\ pc' = "whole"
                    /\ UNCHANGED <<hunks, file_comments>>
            /\ fetched' = Append(fetched,
                   [file_name |-> files[pos], raw_diff |-> diff,
                    split |-> Len(diff) > CHUNK_LIMIT,
                    units |-> IF Len(diff) > CHUNK_LIMIT
                              THEN split_into_hunks(diff) ELSE <<>>])
    /\ UNCHANGED <<CHUNK_LIMIT, files, pos, report_lines, calls, reviewed,
                   written, artifact, notice, exit_code, vc_failed>>

GetFileDiffFails ==
    /\ pc = "file_diff"
    /\ run_command_error

store_result_in_front(lines, file_name, final_review) ==
    IF ~HasLGTM(final_review)
    THEN <<[file_name |-> file_name, review |-> final_review]>> \o lines
    ELSE lines

\* lines 143-144: the entry "## `file_name`\nfinal_review\n" is appended
\* when the review does not contain LGTM
store_result(lines, file_name, final_review) ==
    IF ~HasLGTM(final_review)
    THEN Append(lines, [file_name |-> file_name, review |-> final_review])
    ELSE lines

\* lines 140-150: one ask_llm call over the whole diff, then store and advance
ReviewWhole ==
    /\ pc = "whole"
    /\ \E outcome \in Outcomes :
        LET final_review == ask_llm(outcome)
        IN  /\ calls' = Append(calls,
                   CallRecord(files[pos], raw_diff, FALSE, outcome))
            /\ report_lines' = store_result(report_lines, files[pos], final_review)
            /\ reviewed' = Append(reviewed,
                   [file_name |-> files[pos], final_review |-> final_review])
    /\ pos' = pos + 1
    /\ pc' = IF pos = Len(files) THEN "save" ELSE "file_diff"
    /\ UNCHANGED <<CHUNK_LIMIT, files, raw_diff, hunks, file_comments, fetched,
                   written, artifact, notice, exit_code, vc_failed>>

\* lines 132-133: the first pass of the hunk loop formats `filename`, a name
\* bound in no scope; the NameError is caught nowhere and ends the process
\* before ask_llm (line 134) is reached
ReviewHunk ==
    /\ pc = "hunk"
    /\ hunks # <<>>
    /\ pc' = "crashed"
    /\ exit_code' = 1
    /\ notice' = "traceback"
    /\ UNCHANGED <<CHUNK_LIMIT, files, pos, raw_diff, hunks, file_comments,
                   report_lines, fetched, calls, reviewed, written, artifact,
                   vc_failed>>

\* lines 153 and 156-166
save_report ==
    /\ pc = "save"
    /\ IF report_lines = <<>>
       THEN /\ notice' = "no_issues"
            /\ UNCHANGED <<written, artifact>>
       ELSE /\ written' = written + 1
            /\ artifact' = report_lines
            /\ notice' = "saved"
    /\ pc' = "done"
    /\ exit_code' = 0
    /\ UNCHANGED <<CHUNK_LIMIT, files, pos, raw_diff, hunks, file_comments,
                   report_lines, fetched, calls, reviewed, vc_failed>>

Next ==
    \/ FindMergeBase
    \/ FindMergeBaseFails
    \/ GetChangedFiles
    \/ GetChangedFilesFails
    \/ GetFileDiff
    \/ GetFileDiffFails
    \/ ReviewWhole
    \/ ReviewHunk
    \/ save_report

Spec == Init /\ [][Next]_vars

----------------------------------------------------------------------------
(* split_into_hunks on its own: every text of at most MaxPieces pieces *)

Pieces == {<<"@", "@">>, <<" ">>, <<"\n">>, <<"x">>}

RECURSIVE Flatten(_)
Flatten(ps) == IF ps = <<>> THEN <<>> ELSE Head(ps) \o Flatten(Tail(ps))

SplitInputs ==
    {Flatten(ps) : ps \in UNION {[1..n -> Pieces] : n \in 0..MaxPieces}}

SplitInit ==
    /\ pc = "split_input"
    /\ raw_diff \in SplitInputs
    /\ CHUNK_LIMIT = 0
    /\ files = <<>>
    /\ pos = 0
    /\ hunks = <<>>
    /\ file_comments = <<>>
    /\ report_lines = <<>>
    /\ fetched = <<>>
    /\ calls = <<>>
    /\ reviewed = <<>>
    /\ written = 0
    /\ artifact = <<>>
    /\ notice = "none"
    /\ exit_code = -1
    /\ vc_failed = FALSE

\* line 129 alone: hunks = self.split_into_hunks(raw_diff)
SplitApply ==
    /\ pc = "split_input"
    /\ hunks' = split_into_hunks(raw_diff)
    /\ pc' = "split_output"
    /\ UNCHANGED <<CHUNK_LIMIT, files, pos, raw_diff, file_comments,
                   report_lines, fetched, calls, reviewed, written, artifact,
                   notice, exit_code, vc_failed>>

SplitNext == SplitApply

SplitSpec == SplitInit /\ [][SplitNext]_vars

----------------------------------------------------------------------------
(* Vocabulary of the properties *)

\* the text holds the four characters L, G, T, M in a row
ContainsLGTM(t) ==
    \E i \in 1..(Len(t) - 3) :
        t[i] = "L" /\ t[i + 1] = "G" /\ t[i + 2] = "T" /\ t[i + 3] = "M"

\* the ask_llm calls made for a file, in the order they were made
CallsFor(f) ==
    LET OfFile(c) == c.file_name = f
    IN  SelectSeq(calls, OfFile)

InReport(f) == \E i \in DOMAIN report_lines : report_lines[i].file_name = f

ReportText(f) ==
    LET i == CHOOSE i \in DOMAIN report_lines : report_lines[i].file_name = f
    IN  report_lines[i].review

\* the process has ended: returned, exited through sys.exit, or died
RunOver == pc \in {"done", "exited", "crashed"}

\* the file of the k-th fetched diff is no longer being worked on
Finished(k) == k < Len(fetched) \/ k <= Len(reviewed) \/ RunOver

\* a hunk header as the specification defines it: "@@", a blank, anything,
\* a blank, "@@", from a line start and within that one line
LineBlanks == Whitespace \ {"\n"}

LineHeaderEnd(s, p) ==
    LET closings ==
            {q \in (p + 3)..(Len(s) - 2) :
                /\ s[q] \in LineBlanks
                /\ s[q + 1] = "@"
                /\ s[q + 2] = "@"
                /\ \A j \in (p + 3)..(q - 1) : s[j] # "\n"}
    IN  IF /\ p + 2 <= Len(s)
           /\ (p = 1 \/ s[p - 1] = "\n")
           /\ s[p] = "@"
           /\ s[p + 1] = "@"
           /\ s[p + 2] \in LineBlanks
           /\ closings # {}
        THEN SetMin(closings) + 2
        ELSE 0

\* start positions of the single-line headers of s, left to right
RECURSIVE LineHeaders(_, _)
LineHeaders(s, from) ==
    LET starts == {p \in from..Len(s) : LineHeaderEnd(s, p) # 0}
    IN  IF starts = {} THEN <<>>
        ELSE <<SetMin(starts)>> \o LineHeaders(s, LineHeaderEnd(s, SetMin(starts)) + 1)

\* the leading segment: the text before the first single-line header
LeadingSegment(s) == SubSeq(s, 1, LineHeaders(s, 1)[1] - 1)

\* the k-th header with all text up to the next header or the end of s
HunkBody(s, k) ==
    LET hs == LineHeaders(s, 1)
    IN  SubSeq(s, hs[k], IF k < Len(hs) THEN hs[k + 1] - 1 ELSE Len(s))

DigitChars == <<"0", "1", "2", "3", "4", "5", "6", "7", "8", "9">>

\* "**Hunk i:**\n" for a one-digit i
HunkLabel(i) ==
    <<"*", "*", "H", "u", "n", "k", " ", DigitChars[i + 1], ":", "*", "*", "\n">>

RECURSIVE JoinBlank(_)
JoinBlank(ts) ==
    IF ts = <<>> THEN <<>>
    ELSE IF Len(ts) = 1 THEN ts[1]
    ELSE ts[1] \o <<"\n", "\n">> \o JoinBlank(Tail(ts))

\* the merged text the specification gives a decomposed file: the texts that
\* lack LGTM, each behind its label, joined by a blank line
MergedText(cs) ==
    LET indexed == [i \in DOMAIN cs |-> [i |-> i, text |-> cs[i].text]]
        Flagged(e) == ~ContainsLGTM(e.text)
        sel == SelectSeq(indexed, Flagged)
    IN  JoinBlank([j \in DOMAIN sel |-> HunkLabel(sel[j].i) \o sel[j].text])

----------------------------------------------------------------------------
(* Properties *)

\* C1: a diff of length <= CHUNK_LIMIT is reviewed by exactly one call over
\* the whole diff with the full-file note, and that call's text is the
\* file's review; a longer diff goes to the splitter and the file is
\* reviewed by decomposition (read here as: it is reviewed at all).
C1_ThresholdDecides ==
    \A k \in DOMAIN fetched :
        LET d == fetched[k]
            cs == CallsFor(d.file_name)
        IN  IF Len(d.raw_diff) <= CHUNK_LIMIT
            THEN /\ ~d.split
                 /\ k <= Len(reviewed) =>
                        /\ Len(cs) = 1
                        /\ cs[1].content = d.raw_diff
                        /\ cs[1].note = "(Full File Review)"
                        /\ reviewed[k].final_review = cs[1].text
            ELSE /\ d.split
                 /\ Finished(k) => (cs # <<>> /\ k <= Len(reviewed))

\* C2: a decomposed file gets one call per unit, in hunk order, with the
\* partial note; it is CLEAN iff every unit's text holds LGTM, and otherwise
\* its report text is the labelled flagged texts joined by a blank line.
C2_DecomposedMerge ==
    \A k \in DOMAIN fetched :
        LET d == fetched[k]
            cs == CallsFor(d.file_name)
        IN  (d.split /\ Finished(k)) =>
                /\ Len(cs) = Len(d.units)
                /\ \A j \in DOMAIN cs :
                       /\ cs[j].content = d.units[j]
                       /\ cs[j].note = "(Partial Hunk Review)"
                /\ k <= Len(reviewed)
                /\ ~InReport(d.file_name) <=>
                       \A j \in DOMAIN cs : ContainsLGTM(cs[j].text)
                /\ InReport(d.file_name) =>
                       ReportText(d.file_name) = MergedText(cs)

\* C3: a diff over the limit with no hunk header gives zero hunk units and
\* is reviewed by a single call over the whole text with the full-file note;
\* no file is CLEAN without a call having been made for it.
C3_ZeroHunkFallback ==
    \A k \in DOMAIN fetched :
        LET d == fetched[k]
            cs == CallsFor(d.file_name)
        IN  /\ (d.split /\ LineHeaders(d.raw_diff, 1) = <<>>) =>
                /\ d.units = <<>>
                /\ Finished(k) =>
                       /\ Len(cs) = 1
                       /\ cs[1].content = d.raw_diff
                       /\ cs[1].note = "(Full File Review)"
            /\ (k <= Len(reviewed) /\ ~InReport(d.file_name)) => cs # <<>>

\* C4: a text with N >= 1 single-line hunk headers splits into exactly N
\* units; unit k is the leading segment (with or without one newline after
\* it) followed by the k-th header and everything up to the next header, so
\* that the units' bodies in order are the original text after the leading
\* segment.
C4_SplitLossless ==
    (pc = "split_output" /\ LineHeaders(raw_diff, 1) # <<>>) =>
        /\ Len(hunks) = Len(LineHeaders(raw_diff, 1))
        /\ \A k \in DOMAIN hunks :
               \E sep \in {<<>>, <<"\n">>} :
                   hunks[k] = LeadingSegment(raw_diff) \o sep \o HunkBody(raw_diff, k)

\* C5: the text taken from a successful response makes its unit CLEAN
\* exactly when it holds LGTM as a substring; every other text, the empty
\* one included, makes it FLAGGED (here: the file enters the report).
C5_LgtmSubstring ==
    \A i \in DOMAIN calls :
        calls[i].outcome.kind # "error" =>
            /\ calls[i].text = Strip(calls[i].outcome.text)
            /\ InReport(calls[i].file_name) <=> ~ContainsLGTM(calls[i].text)

\* C5 witness: a reply that holds LGTM among other characters was given and
\* its file stayed out of the report, next to an empty reply that entered it
C5_Witness ==
    /\ \E i \in DOMAIN calls :
           /\ calls[i].outcome.kind = "choices"
           /\ ContainsLGTM(calls[i].text)
           /\ calls[i].text # LGTM
           /\ ~InReport(calls[i].file_name)
    /\ \E i \in DOMAIN calls :
           /\ calls[i].outcome.kind = "choices"
           /\ calls[i].text = <<>>
           /\ InReport(calls[i].file_name)

\* C6: a call that failed (transport, status, parsing) makes its unit
\* FLAGGED whatever the failure's text is, and its file is carried through
\* to line 143 like any other (the failure ends no process).
C6_FailureIsFlagged ==
    \A i \in DOMAIN calls :
        calls[i].outcome.kind = "error" =>
            /\ InReport(calls[i].file_name)
            /\ i <= Len(reviewed)

\* the report is the flagged reviews of the processed files, in order
ExpectedReport ==
    LET Flagged(r) == ~ContainsLGTM(r.final_review)
        sel == SelectSeq(reviewed, Flagged)
    IN  [j \in DOMAIN sel |->
            [file_name |-> sel[j].file_name, review |-> sel[j].final_review]]

\* C7: at every point the report holds one entry per processed FLAGGED file
\* and none for a CLEAN one, in listing order; files are processed at most
\* once, in listing order; the report only grows at its end.
C7_ReportAppendOnly ==
    /\ [](/\ Len(reviewed) <= Len(files)
          /\ \A i \in DOMAIN reviewed : reviewed[i].file_name = files[i]
          /\ \A i, j \in DOMAIN files : files[i] = files[j] => i = j
          /\ report_lines = ExpectedReport)
    /\ [][/\ Len(report_lines') <= Len(report_lines) + 1
          /\ report_lines = SubSeq(report_lines', 1, Len(report_lines))]_vars

\* C7 witness: two files processed, both FLAGGED, reported in listing order
C7_Witness ==
    /\ Len(reviewed) = 2
    /\ Len(report_lines) = 2
    /\ report_lines[1].file_name = files[1]
    /\ report_lines[2].file_name = files[2]

\* C8: every hunk of a decomposed file is submitted whatever the calls for
\* the other hunks did, a failed call flags only its own hunk, and a run
\* whose git commands succeed goes on to the report step.
C8_FailureIsolation ==
    /\ \A k \in DOMAIN fetched :
           LET d == fetched[k]
               cs == CallsFor(d.file_name)
           IN  (d.split /\ Finished(k)) =>
                   \A j \in DOMAIN d.units :
                       /\ j <= Len(cs)
                       /\ cs[j].content = d.units[j]
                       /\ k <= Len(reviewed)
                       /\ (ContainsLGTM(cs[j].text) /\ InReport(d.file_name)) =>
                              ~FindFrom(ReportText(d.file_name), HunkLabel(j), 1)
    /\ (RunOver /\ ~vc_failed) => pc = "done"

\* C9: a run whose git commands all succeed ends, after every file has been
\* processed, either with the report written once (entries exist) or with
\* nothing written and the "no issues" notice (no entry, the empty listing
\* included); nothing is written before the last file has been processed.
C9_TerminalOutcomes ==
    /\ (RunOver /\ ~vc_failed) =>
           /\ pc = "done"
           /\ Len(reviewed) = Len(files)
           /\ IF report_lines # <<>>
              THEN written = 1 /\ notice = "saved" /\ artifact = report_lines
              ELSE written = 0 /\ notice = "no_issues"
    /\ written > 0 => Len(reviewed) = Len(files)

\* C10: once a git command has failed the process has exited with a
\* non-zero code, the report file is never written, and no call, review or
\* report entry is added afterwards.
C10_GitFailureStops ==
    /\ [](vc_failed => (pc = "exited" /\ exit_code # 0 /\ exit_code # -1 /\ written = 0))
    /\ [][vc_failed =>
            UNCHANGED <<calls, reviewed, fetched, report_lines, written, artifact>>]_vars

\* C10 witness: git failed after an earlier file had entered the report
C10_Witness == vc_failed /\ report_lines # <<>>

====
